---- MODULE Spec2Model ----
(***************************************************************************)
(* A model of TouchBistro/goutils.                                         *)
(*                                                                         *)
(* The spinner package (the variant with the debug writer) is modelled as  *)
(* a state machine: the Spinner struct is the record s, foreground         *)
(* callers run Start / Stop / Inc* / Debugf, and every successful Start    *)
(* launches one goroutine executing run().  The functions of the packages  *)
(* textutil and color are operators, applied by the actions of their own   *)
(* specifications.  Strings are sequences of one-character strings, so     *)
(* that indexing, slicing and length behave as they do on Go strings of    *)
(* ASCII text.                                                             *)
(***************************************************************************)
EXTENDS Integers, Sequences, FiniteSets, TLC

VARIABLES
    s,         \* the Spinner struct, with the contents of its two writers
    goos,      \* runtime.GOOS of the build: "windows" or "linux"
    pc,        \* per caller: where the caller is inside a method
    arg,       \* per caller: the message argument of the method in progress
    tmp,       \* per caller: the value of s.completed read by `s.completed++`
    run,       \* per goroutine: position in run() and loop index i
    started,   \* number of Start calls that found the spinner inactive
    launched,  \* number of `go s.run()` statements executed
    rendered,  \* number of frames written by all goroutines
    incCalls,  \* number of Inc, IncWithMessage and IncWithMessagef calls made
    free,      \* TRUE: callers call anything; FALSE: callers follow prog
    prog,      \* per caller: the sequence of calls of a scripted caller
    pos,       \* per caller: index of the next call of prog
    opts,      \* the options the spinner was constructed with
    last,      \* the last call made, and whether it returned early
    lim,       \* how many Start calls, frames and pending debug messages the
               \* run is followed for
    unlocked,  \* the fields some thread has read or written so far while it
               \* did not hold the mutex
    ex,        \* package textutil: the arguments and the result of a call
    col        \* package color: its variables, and the last call with its result

\* What no method of the spinner changes: what is set at construction, and
\* the state of the other packages.
fixed == <<goos, free, prog, opts, lim, ex, col>>

\* The state of the spinner and of its callers.
spinner == <<s, pc, arg, tmp, run, started, launched, rendered, incCalls, pos,
             last, unlocked, goos, free, prog, opts, lim>>

vars == <<s, pc, arg, tmp, run, started, launched, rendered, incCalls, pos,
          last, unlocked, fixed>>

(***************************************************************************)
(* Bounds of the model.                                                    *)
(***************************************************************************)
MaxStarts == 3
MaxFrames == 3
IncStarts == 1
IncFrames == 1
MaxDebugMsgs == 2
MaxIncCalls == 3
MaxCount == 2
MaxMsgChars == 2
MsgDebugMsgs == 1
MaxPieces == 6
MaxSetCalls == 2
MaxColorPieces == 3
WrapFrames == 11
LiveStarts == 2
LiveFrames == 2
LogStarts == 2
LogFrames == 2
LogDebugMsgs == 1

(***************************************************************************)
(* Program constants.                                                      *)
(***************************************************************************)
NumFrames == 10
StopChanCap == 1
DefaultCount == 1
DefaultMaxMsgLen == 80

Callers == DOMAIN pc
Tasks == DOMAIN run
None == "none"

\* Characters that the code tests for or writes.
SP == " "
LF == "LF"
CR == "CR"
BS == "BS"
ESC == "ESC"
\* "\127" is an octal escape in Go: the character 'W'.
Oct127 == "W"

Frames == <<"U+280B", "U+2819", "U+2839", "U+2838", "U+283C",
            "U+2834", "U+2826", "U+2827", "U+2807", "U+280F">>

Ellipsis == <<".", ".", ".">>

\* The strings of at most n characters of the set chars.
Strings(chars, n) == UNION {[1..k -> chars] : k \in 0..n}

RECURSIVE Repeat(_, _)
\* strings.Repeat
Repeat(str, n) == IF n <= 0 THEN <<>> ELSE str \o Repeat(str, n - 1)

RECURSIVE Itoa(_)
\* the %d verb of fmt for an int
Itoa(n) ==
    IF n < 0 THEN <<"-">> \o Itoa(-n)
    ELSE IF n < 10 THEN <<ToString(n)>>
    ELSE Itoa(n \div 10) \o <<ToString(n % 10)>>

RECURSIVE Lines(_)
\* fmt.Fprintln of each debug message: the message and a newline
Lines(msgs) ==
    IF msgs = <<>> THEN <<>>
    ELSE <<Head(msgs) \o <<LF>>>> \o Lines(Tail(msgs))

(***************************************************************************)
(* Construction.                                                           *)
(***************************************************************************)
DefaultOpts ==
    [count |-> DefaultCount, maxMsgLen |-> DefaultMaxMsgLen,
     startMsg |-> <<>>, stopMsg |-> <<>>, debugw |-> FALSE]

\* New(opts...): the struct after the options were applied.  w and
\* debugw.out are what the writers have received; panicked records an
\* index-out-of-range panic of the running method.
New(o) ==
    [w |-> <<>>,
     debugw |-> [set |-> o.debugw, out |-> <<>>],
     mu |-> None,
     stopChan |-> 0,
     active |-> FALSE,
     lastOutput |-> <<>>,
     startMsg |-> o.startMsg,
     stopMsg |-> o.stopMsg,
     msg |-> <<>>,
     count |-> o.count,
     completed |-> 0,
     maxMsgLen |-> o.maxMsgLen,
     debugMsgs |-> <<>>,
     panicked |-> FALSE]

(***************************************************************************)
(* setMsg and erase: called with the lock held.                            *)
(***************************************************************************)
Panic(sp) == [sp EXCEPT !.panicked = TRUE]

\* A setMsg that saves the previous message with its leading space.
setMsgKeepSpace(sp, m) ==
    IF m = <<>> THEN sp
    ELSE
      LET m1 == IF m[Len(m)] = LF THEN SubSeq(m, 1, Len(m) - 1) ELSE m
          long == Len(m1) > sp.maxMsgLen
      IN
      IF long /\ sp.maxMsgLen < 0 THEN Panic(sp)
      ELSE
        LET m2 == IF long THEN SubSeq(m1, 1, sp.maxMsgLen) \o Ellipsis ELSE m1
        IN
        IF m2 = <<>> THEN Panic(sp)
        ELSE
          LET m3 == IF m2[1] # SP THEN <<SP>> \o m2 ELSE m2
          IN [sp EXCEPT
                !.debugMsgs = IF sp.msg # <<>> THEN Append(@, sp.msg) ELSE @,
                !.msg = m3]

\* A setMsg that truncates a message of exactly maxMsgLen characters.
setMsgTruncAtLimit(sp, m) ==
    IF m = <<>> THEN sp
    ELSE
      LET m1 == IF m[Len(m)] = LF THEN SubSeq(m, 1, Len(m) - 1) ELSE m
          long == Len(m1) >= sp.maxMsgLen
      IN
      IF long /\ sp.maxMsgLen < 0 THEN Panic(sp)
      ELSE
        LET m2 == IF long THEN SubSeq(m1, 1, sp.maxMsgLen) \o Ellipsis ELSE m1
        IN
        IF m2 = <<>> THEN Panic(sp)
        ELSE
          LET m3 == IF m2[1] # SP THEN <<SP>> \o m2 ELSE m2
          IN [sp EXCEPT
                !.debugMsgs = IF sp.msg # <<>> THEN Append(@, Tail(sp.msg)) ELSE @,
                !.msg = m3]

\* A setMsg that adds a space to every message.
setMsgAlwaysPad(sp, m) ==
    IF m = <<>> THEN sp
    ELSE
      LET m1 == IF m[Len(m)] = LF THEN SubSeq(m, 1, Len(m) - 1) ELSE m
          long == Len(m1) > sp.maxMsgLen
      IN
      IF long /\ sp.maxMsgLen < 0 THEN Panic(sp)
      ELSE
        LET m2 == IF long THEN SubSeq(m1, 1, sp.maxMsgLen) \o Ellipsis ELSE m1
        IN
        IF m2 = <<>> THEN Panic(sp)
        ELSE
          LET m3 == <<SP>> \o m2
          IN [sp EXCEPT
                !.debugMsgs = IF sp.msg # <<>> THEN Append(@, Tail(sp.msg)) ELSE @,
                !.msg = m3]

\* setMsg: lines 390-413.
setMsg(sp, m) ==
    IF m = <<>> THEN sp
    ELSE
      LET m1 == IF m[Len(m)] = LF THEN SubSeq(m, 1, Len(m) - 1) ELSE m
          long == Len(m1) > sp.maxMsgLen
      IN
      IF long /\ sp.maxMsgLen < 0 THEN Panic(sp)
      ELSE
        LET m2 == IF long THEN SubSeq(m1, 1, sp.maxMsgLen) \o Ellipsis ELSE m1
        IN
        IF m2 = <<>> THEN Panic(sp)
        ELSE
          LET m3 == IF m2[1] # SP THEN <<SP>> \o m2 ELSE m2
          IN [sp EXCEPT
                !.debugMsgs = IF sp.msg # <<>> THEN Append(@, Tail(sp.msg)) ELSE @,
                !.msg = m3]

EraseText(n) ==
    IF goos = "windows"
    THEN <<CR>> \o Repeat(<<SP>>, n) \o <<CR>>
    ELSE Repeat(<<BS>>, n) \o Repeat(<<Oct127>>, n) \o Repeat(<<BS>>, n)
         \o Repeat(<<ESC, "[", "K">>, n) \o <<CR, ESC, "[", "K">>

erase(sp) ==
    LET n == Len(sp.lastOutput)
        s1 == [sp EXCEPT !.w = Append(@, [kind |-> "erase", text |-> EraseText(n)])]
        s2 == IF s1.debugw.set
              THEN [s1 EXCEPT !.debugw.out = @ \o Lines(s1.debugMsgs),
                              !.debugMsgs = <<>>]
              ELSE s1
    IN [s2 EXCEPT !.lastOutput = <<>>]

(***************************************************************************)
(* The callers.  A call is [op, m]; a free caller may make any call, a     *)
(* scripted caller makes the calls of prog in order.                       *)
(***************************************************************************)
Call(op, m) == [op |-> op, m |-> m]

Allowed(c, call) ==
    /\ ~s.panicked
    /\ pc[c] = "idle"
    /\ free \/ (pos[c] <= Len(prog[c]) /\ prog[c][pos[c]] = call)

Issued(c, op, early) ==
    /\ pos' = IF free THEN pos ELSE [pos EXCEPT ![c] = @ + 1]
    /\ last' = [op |-> op, early |-> early]

\* The thread is about to read or write the given fields of the spinner;
\* holds tells whether it holds the mutex while it does.
Touch(fields, holds) ==
    unlocked' = IF holds THEN unlocked ELSE unlocked \cup fields

\* The name under which goroutine t of run() holds the mutex.
TaskName(t) == ToString(t)

\* A Lock that excludes nobody.
CanLockAlways(sp) == TRUE

\* s.mu.Lock() returns only when no other thread holds the mutex.
CanLock(sp) == sp.mu = None

\* A Start without the test of s.active.
StartLockedNoCheck(sp) == setMsg([sp EXCEPT !.active = TRUE], sp.startMsg)

\* Start: lines 323-330, the section under the lock.
StartLocked(sp) ==
    IF sp.active THEN sp
    ELSE setMsg([sp EXCEPT !.active = TRUE], sp.startMsg)

Start(c) ==
    /\ Allowed(c, Call("Start", <<>>))
    /\ CanLock(s)
    /\ s.active \/ started < lim.starts
    /\ Issued(c, "Start", s.active)
    /\ Touch({"active", "startMsg", "msg", "maxMsgLen", "debugMsgs"}, CanLock(s))
    /\ LET s1 == StartLocked(s) IN
       IF s1.active = s.active
       THEN /\ s' = s1
            /\ UNCHANGED <<pc, started>>
       ELSE /\ s' = IF s1.panicked THEN [s1 EXCEPT !.mu = c] ELSE s1
            /\ pc' = [pc EXCEPT ![c] = "StartGo"]
            /\ started' = started + 1
    /\ UNCHANGED <<fixed, arg, tmp, run, launched, rendered, incCalls>>

\* Start: line 331, `go s.run()`.
StartGo(c) ==
    /\ ~s.panicked
    /\ pc[c] = "StartGo"
    /\ launched' = launched + 1
    /\ run' = [run EXCEPT ![launched + 1] = [pc |-> "select", i |-> 0]]
    /\ pc' = [pc EXCEPT ![c] = "idle"]
    /\ UNCHANGED <<fixed, s, arg, tmp, started, rendered, incCalls, pos, last,
                   unlocked>>

\* A Stop without the test of s.active.
StopLockedNoCheck(sp, c) == [sp EXCEPT !.active = FALSE, !.mu = c]

\* Stop: lines 337-343, up to the send on stopChan.
StopLocked(sp, c) ==
    IF ~sp.active THEN sp
    ELSE [sp EXCEPT !.active = FALSE, !.mu = c]

Stop(c) ==
    /\ Allowed(c, Call("Stop", <<>>))
    /\ CanLock(s)
    /\ Issued(c, "Stop", ~s.active)
    /\ Touch({"active"}, CanLock(s))
    /\ s' = StopLocked(s, c)
    /\ pc' = IF s'.mu = c THEN [pc EXCEPT ![c] = "StopSend"] ELSE pc
    /\ UNCHANGED <<fixed, arg, tmp, run, started, launched, rendered, incCalls>>

\* A Stop that appends the newline without looking at the stop message.
StopRestAlwaysNewline(sp) ==
    LET s1 == [sp EXCEPT !.stopChan = @ + 1]
        s2 == IF s1.msg # <<>>
              THEN [s1 EXCEPT !.debugMsgs = Append(@, Tail(s1.msg))]
              ELSE s1
        s3 == erase(s2)
    IN IF s3.stopMsg # <<>>
       THEN LET sm == s3.stopMsg \o <<LF>>
            IN [s3 EXCEPT !.stopMsg = sm,
                          !.w = Append(@, [kind |-> "stop", text |-> sm])]
       ELSE s3

\* Stop: lines 344-358, from the send on stopChan on.
StopRest(sp) ==
    LET s1 == [sp EXCEPT !.stopChan = @ + 1]
        s2 == IF s1.msg # <<>>
              THEN [s1 EXCEPT !.debugMsgs = Append(@, Tail(s1.msg))]
              ELSE s1
        s3 == erase(s2)
    IN IF s3.stopMsg # <<>>
       THEN LET sm == IF s3.stopMsg[Len(s3.stopMsg)] # LF
                      THEN s3.stopMsg \o <<LF>> ELSE s3.stopMsg
            IN [s3 EXCEPT !.stopMsg = sm,
                          !.w = Append(@, [kind |-> "stop", text |-> sm])]
       ELSE s3

\* The send `s.stopChan <- struct{}{}` of line 344 blocks while the slot
\* of the channel is taken.
CanSend(sp) == sp.stopChan < StopChanCap

StopSend(c) ==
    /\ ~s.panicked
    /\ pc[c] = "StopSend"
    /\ CanSend(s)
    /\ Touch({"stopChan", "msg", "debugMsgs", "lastOutput", "w", "debugw",
              "stopMsg"}, s.mu = c)
    /\ s' = [StopRest(s) EXCEPT !.mu = None]
    /\ pc' = [pc EXCEPT ![c] = "idle"]
    /\ UNCHANGED <<fixed, arg, tmp, run, started, launched, rendered, incCalls,
                   pos, last>>

\* The test of line 373 with > in place of >=.
CompleteOffByOne(sp) == sp.completed > sp.count

\* IncWithMessage: line 373.
Complete(sp) == sp.completed >= sp.count

\* IncWithMessage: lines 371-376, up to the read of s.completed by
\* `s.completed++`.  Inc and IncWithMessagef delegate to it.
IncCall(c, call) ==
    /\ Allowed(c, call)
    /\ free => incCalls < MaxIncCalls
    /\ CanLock(s)
    /\ Issued(c, call.op, Complete(s))
    /\ Touch({"completed", "count"}, CanLock(s))
    /\ incCalls' = incCalls + 1
    /\ IF Complete(s)
       THEN UNCHANGED <<s, pc, arg, tmp>>
       ELSE /\ s' = [s EXCEPT !.mu = c]
            /\ pc' = [pc EXCEPT ![c] = "IncWrite"]
            /\ arg' = [arg EXCEPT ![c] = call.m]
            /\ tmp' = [tmp EXCEPT ![c] = s.completed]
    /\ UNCHANGED <<fixed, run, started, launched, rendered>>

IncWithMessage(c, m) == IncCall(c, Call("IncWithMessage", m))

\* Inc: lines 363-365.
Inc(c) == IncCall(c, Call("Inc", <<>>))

\* IncWithMessagef: lines 383-385; m is the result of fmt.Sprintf.
IncWithMessagef(c, m) == IncCall(c, Call("IncWithMessagef", m))

\* IncWithMessage: lines 376-378, the write of `s.completed++`, setMsg and
\* the deferred Unlock.
IncWrite(c) ==
    /\ ~s.panicked
    /\ pc[c] = "IncWrite"
    /\ Touch({"completed", "msg", "maxMsgLen", "debugMsgs"}, s.mu = c)
    /\ s' = [setMsg([s EXCEPT !.completed = tmp[c] + 1], arg[c]) EXCEPT !.mu = None]
    /\ pc' = [pc EXCEPT ![c] = "idle"]
    /\ arg' = [arg EXCEPT ![c] = <<>>]
    /\ tmp' = [tmp EXCEPT ![c] = 0]
    /\ UNCHANGED <<fixed, run, started, launched, rendered, incCalls, pos,
                   last>>

\* Debugf: lines 418-420, the test of s.debugw made without the lock.
Debugf(c, m) ==
    /\ Allowed(c, Call("Debugf", m))
    /\ Len(s.debugMsgs) < lim.debugs
    /\ Issued(c, "Debugf", ~s.debugw.set)
    /\ Touch({"debugw"}, s.mu = c)
    /\ IF ~s.debugw.set
       THEN UNCHANGED <<pc, arg>>
       ELSE /\ pc' = [pc EXCEPT ![c] = "DebugfLock"]
            /\ arg' = [arg EXCEPT ![c] = m]
    /\ UNCHANGED <<fixed, s, tmp, run, started, launched, rendered, incCalls>>

\* A Debugf that appends its message twice.
DebugfLockedTwice(c) ==
    /\ ~s.panicked
    /\ pc[c] = "DebugfLock"
    /\ CanLock(s)
    /\ Touch({"debugMsgs"}, CanLock(s))
    /\ s' = [s EXCEPT !.debugMsgs = Append(Append(@, arg[c]), arg[c])]
    /\ pc' = [pc EXCEPT ![c] = "idle"]
    /\ arg' = [arg EXCEPT ![c] = <<>>]
    /\ UNCHANGED <<fixed, tmp, run, started, launched, rendered, incCalls, pos,
                   last>>

\* Debugf: lines 421-423.
DebugfLocked(c) ==
    /\ ~s.panicked
    /\ pc[c] = "DebugfLock"
    /\ CanLock(s)
    /\ Touch({"debugMsgs"}, CanLock(s))
    /\ s' = [s EXCEPT !.debugMsgs = Append(@, arg[c])]
    /\ pc' = [pc EXCEPT ![c] = "idle"]
    /\ arg' = [arg EXCEPT ![c] = <<>>]
    /\ UNCHANGED <<fixed, tmp, run, started, launched, rendered, incCalls, pos,
                   last>>

(***************************************************************************)
(* run(): the goroutine of one Start.                                      *)
(***************************************************************************)
Alive(t) == run[t].pc \in {"select", "lock", "locked", "sleep"}

\* A select that never finds a value on stopChan.
SignalledNever(sp) == FALSE

\* line 432: a value is ready on stopChan.
Signalled(sp) == sp.stopChan > 0

\* lines 431-434: the non-blocking receive on stopChan.
RunSelect(t) ==
    /\ ~s.panicked
    /\ run[t].pc = "select"
    /\ Touch({"stopChan"}, s.mu = TaskName(t))
    /\ IF Signalled(s)
       THEN /\ s' = [s EXCEPT !.stopChan = @ - 1]
            /\ run' = [run EXCEPT ![t].pc = "done"]
       ELSE /\ run' = [run EXCEPT ![t].pc = "lock"]
            /\ UNCHANGED s
    /\ UNCHANGED <<fixed, pc, arg, tmp, started, launched, rendered, incCalls,
                   pos, last>>

\* A frame that shows the progress for every total count.
LineAlwaysProgress(sp, i) ==
    <<CR, Frames[i + 1]>> \o sp.msg \o <<SP>>
    \o <<"(">> \o Itoa(sp.completed) \o <<"/">> \o Itoa(sp.count) \o <<")", SP>>

\* lines 442-445: the frame of loop index i.
Line(sp, i) ==
    <<CR, Frames[i + 1]>> \o sp.msg \o <<SP>>
    \o (IF sp.count > 1
        THEN <<"(">> \o Itoa(sp.completed) \o <<"/">> \o Itoa(sp.count) \o <<")", SP>>
        ELSE <<>>)

\* A frame written over the previous one, without the erase.
RenderNoErase(sp, i) ==
    LET line == Line(sp, i)
    IN [sp EXCEPT !.w = Append(@, [kind |-> "frame", text |-> line]),
                  !.lastOutput = line]

\* lines 440-447: erase, compose, write, remember.
Render(sp, i) ==
    LET s1 == erase(sp)
        line == Line(s1, i)
    IN [s1 EXCEPT !.w = Append(@, [kind |-> "frame", text |-> line]),
                  !.lastOutput = line]

\* A run() without the test of s.active.
DeactivatedNever(sp) == FALSE

\* line 436: the spinner was stopped since the select.
Deactivated(sp) == ~sp.active

\* line 435: s.mu.Lock().  A goroutine that would render is followed only
\* while frames remain to be rendered.
RunLock(t) ==
    /\ ~s.panicked
    /\ run[t].pc = "lock"
    /\ CanLock(s)
    /\ s.active => rendered < lim.frames
    /\ s' = [s EXCEPT !.mu = TaskName(t)]
    /\ run' = [run EXCEPT ![t].pc = "locked"]
    /\ UNCHANGED <<fixed, pc, arg, tmp, started, launched, rendered, incCalls,
                   pos, last, unlocked>>

\* lines 436-450: the section of run() under the lock, up to the Unlock.
RunFrame(t) ==
    /\ ~s.panicked
    /\ run[t].pc = "locked"
    /\ Touch({"active", "lastOutput", "w", "debugw", "debugMsgs", "msg",
              "count", "completed", "interval"}, s.mu = TaskName(t))
    /\ IF Deactivated(s)
       THEN /\ s' = [s EXCEPT !.mu = None]
            /\ run' = [run EXCEPT ![t].pc = "done"]
            /\ UNCHANGED rendered
       ELSE /\ rendered < lim.frames
            /\ s' = [Render(s, run[t].i) EXCEPT !.mu = None]
            /\ rendered' = rendered + 1
            /\ run' = [run EXCEPT ![t].pc = "sleep"]
    /\ UNCHANGED <<fixed, pc, arg, tmp, started, launched, incCalls, pos, last>>

\* line 451 and the loop headers of lines 429-430.
RunSleep(t) ==
    /\ ~s.panicked
    /\ run[t].pc = "sleep"
    /\ run' = [run EXCEPT ![t] = [pc |-> "select", i |-> (@.i + 1) % NumFrames]]
    /\ UNCHANGED <<fixed, s, pc, arg, tmp, started, launched, rendered,
                   incCalls, pos, last, unlocked>>

(***************************************************************************)
(* Specifications.                                                         *)
(***************************************************************************)
\* No call of package textutil was made.
NoExpand == [fn |-> "none", src |-> <<>>, mapping |-> "none", out |-> <<>>]

\* Package color is not looked at.
NoColor == [fn |-> "none"]

InitSpinner(o, os, fr, pr, l) ==
    /\ lim = l
    /\ opts = o
    /\ last = [op |-> "New", early |-> FALSE]
    /\ s = New(o)
    /\ goos = os
    /\ pc = [c \in DOMAIN pr |-> "idle"]
    /\ arg = [c \in DOMAIN pr |-> <<>>]
    /\ tmp = [c \in DOMAIN pr |-> 0]
    /\ run = [t \in 1..l.starts |-> [pc |-> "none", i |-> 0]]
    /\ started = 0
    /\ launched = 0
    /\ rendered = 0
    /\ incCalls = 0
    /\ free = fr
    /\ prog = pr
    /\ pos = [c \in DOMAIN pr |-> 1]
    /\ unlocked = {}

InitWith(o, os, fr, pr, l) ==
    /\ InitSpinner(o, os, fr, pr, l)
    /\ ex = NoExpand
    /\ col = NoColor

GoosValues == {"linux", "windows"}

Lifecycle ==
    \/ \E c \in Callers : Start(c)
    \/ \E c \in Callers : StartGo(c)
    \/ \E c \in Callers : Stop(c)
    \/ \E c \in Callers : StopSend(c)
    \/ \E t \in Tasks : RunSelect(t)
    \/ \E t \in Tasks : RunLock(t)
    \/ \E t \in Tasks : RunFrame(t)
    \/ \E t \in Tasks : RunSleep(t)

(***************************************************************************)
(* Spec: two callers calling Start and Stop in any order on a spinner      *)
(* with a start message, with and without a stop message and a debug       *)
(* writer, and the goroutines of run().                                    *)
(***************************************************************************)
TwoCallers == [c \in {"c1", "c2"} |-> <<>>]

LifecycleOpts ==
    {[DefaultOpts EXCEPT !.count = 2, !.startMsg = <<"w">>,
                         !.stopMsg = sm, !.debugw = d] :
        sm \in {<<>>, <<"d">>, <<"d", LF>>}, d \in BOOLEAN}

Init ==
    \E o \in LifecycleOpts : \E os \in GoosValues :
        InitWith(o, os, TRUE, TwoCallers,
                 [starts |-> MaxStarts, frames |-> MaxFrames, debugs |-> 0])

Next == Lifecycle

Spec == Init /\ [][Next]_vars

(***************************************************************************)
(* SpecLive: two callers calling Start and Stop in any order, with every   *)
(* thread scheduled again and again: a goroutine of run() that can take    *)
(* its next step takes it, and so does a caller that is inside Start or    *)
(* Stop.                                                                   *)
(***************************************************************************)
InitLive ==
    \E o \in LifecycleOpts : \E os \in GoosValues :
        InitWith(o, os, TRUE, TwoCallers,
                 [starts |-> LiveStarts, frames |-> LiveFrames, debugs |-> 0])

NextLive == Lifecycle

TaskFairness ==
    \A t \in 1..LiveStarts :
        /\ WF_vars(RunSelect(t))
        /\ WF_vars(RunLock(t))
        /\ WF_vars(RunFrame(t))
        /\ WF_vars(RunSleep(t))

CallerFairness ==
    \A c \in DOMAIN TwoCallers : WF_vars(StartGo(c)) /\ WF_vars(StopSend(c))

SpecLive == InitLive /\ [][NextLive]_vars /\ TaskFairness /\ CallerFairness

(***************************************************************************)
(* SpecInc: two callers calling Inc, IncWithMessage, IncWithMessagef,      *)
(* Start and Stop in any order, for every total count up to MaxCount.      *)
(***************************************************************************)
IncMsgs == {<<"a">>}

IncOpts ==
    {[DefaultOpts EXCEPT !.count = n, !.startMsg = <<"w">>, !.debugw = d] :
        n \in 0..MaxCount, d \in BOOLEAN}

InitInc ==
    \E o \in IncOpts :
        InitWith(o, "linux", TRUE, TwoCallers,
                 [starts |-> IncStarts, frames |-> IncFrames, debugs |-> 0])

NextInc ==
    \/ Lifecycle
    \/ \E c \in Callers : Inc(c)
    \/ \E c \in Callers : \E m \in IncMsgs : IncWithMessage(c, m)
    \/ \E c \in Callers : \E m \in IncMsgs : IncWithMessagef(c, m)
    \/ \E c \in Callers : IncWrite(c)

SpecInc == InitInc /\ [][NextInc]_vars

(***************************************************************************)
(* SpecScenario: one caller making the calls of a scenario, with the       *)
(* goroutines of run().                                                    *)
(***************************************************************************)
Step1 == <<"s", "t", "e", "p", "1">>
Step2 == <<"s", "t", "e", "p", "2">>

\* IncWithMessage("step1"), IncWithMessage("step2"), Stop()
IncIncStop ==
    <<Call("IncWithMessage", Step1), Call("IncWithMessage", Step2), Call("Stop", <<>>)>>

\* Start(), IncWithMessage("step1"), IncWithMessage("step2"), Stop()
StartIncIncStop == <<Call("Start", <<>>)>> \o IncIncStop

ScenarioOpts ==
    {[DefaultOpts EXCEPT !.count = n, !.debugw = TRUE] : n \in 1..(MaxCount + 1)}

InitScenario ==
    \E o \in ScenarioOpts : \E os \in GoosValues :
        \E p \in {IncIncStop, StartIncIncStop} :
            InitWith(o, os, FALSE, [c \in {"c1"} |-> p],
                     [starts |-> MaxStarts, frames |-> MaxFrames, debugs |-> 0])

NextScenario ==
    \/ Lifecycle
    \/ \E c \in Callers : \E m \in {Step1, Step2} : IncWithMessage(c, m)
    \/ \E c \in Callers : IncWrite(c)

SpecScenario == InitScenario /\ [][NextScenario]_vars

\* Every scripted caller has made all its calls and returned from the last.
Finished == \A c \in Callers : pos[c] > Len(prog[c]) /\ pc[c] = "idle"

(***************************************************************************)
(* SpecMsg: one caller calling every method in any order, with every       *)
(* message of up to MaxMsgChars characters over a letter, the space and    *)
(* the newline, on a spinner with the default or a small maximum message   *)
(* length and a start message of at most one character.                    *)
(***************************************************************************)
MsgChars == {"a", SP, LF}

Msgs == Strings(MsgChars, MaxMsgChars)

StartMsgs == Strings(MsgChars, 1)

\* fmt.Sprintf("%s\n", "a")
FmtMsgs == {<<"a", LF>>}

DebugMsgs == {<<"x">>}

MsgOpts ==
    {[DefaultOpts EXCEPT !.maxMsgLen = n, !.startMsg = sm, !.debugw = d] :
        n \in (0..MaxMsgChars) \cup {DefaultMaxMsgLen}, sm \in StartMsgs,
        d \in BOOLEAN}

OneCaller == [c \in {"c1"} |-> <<>>]

InitMsg ==
    \E o \in MsgOpts :
        InitWith(o, "linux", TRUE, OneCaller,
                 [starts |-> IncStarts, frames |-> IncFrames,
                  debugs |-> MsgDebugMsgs])

NextMsg ==
    \/ Lifecycle
    \/ \E c \in Callers : Inc(c)
    \/ \E c \in Callers : \E m \in Msgs : IncWithMessage(c, m)
    \/ \E c \in Callers : \E m \in FmtMsgs : IncWithMessagef(c, m)
    \/ \E c \in Callers : IncWrite(c)
    \/ \E c \in Callers : \E m \in DebugMsgs : Debugf(c, m)
    \/ \E c \in Callers : DebugfLocked(c)

SpecMsg == InitMsg /\ [][NextMsg]_vars

(***************************************************************************)
(* SpecDebug: two callers calling Debugf, IncWithMessage, Start and Stop   *)
(* in any order, with and without a debug writer, and the goroutines of    *)
(* run().                                                                  *)
(***************************************************************************)
DebugOpts ==
    {[DefaultOpts EXCEPT !.count = MaxCount, !.startMsg = <<"w">>, !.debugw = d] :
        d \in BOOLEAN}

InitDebug ==
    \E o \in DebugOpts :
        InitWith(o, "linux", TRUE, TwoCallers,
                 [starts |-> IncStarts, frames |-> IncFrames,
                  debugs |-> MaxDebugMsgs])

NextDebug ==
    \/ Lifecycle
    \/ \E c \in Callers : \E m \in IncMsgs : IncWithMessage(c, m)
    \/ \E c \in Callers : IncWrite(c)
    \/ \E c \in Callers : \E m \in DebugMsgs : Debugf(c, m)
    \/ \E c \in Callers : DebugfLocked(c)

SpecDebug == InitDebug /\ [][NextDebug]_vars

(***************************************************************************)
(* SpecLog: one caller calling Start, IncWithMessage, Debugf and Stop in   *)
(* any order on a spinner with a debug writer, with and without a start    *)
(* message, through up to LogStarts cycles of Start and Stop.              *)
(***************************************************************************)
LogOpts ==
    {[DefaultOpts EXCEPT !.count = MaxCount, !.startMsg = sm, !.debugw = TRUE] :
        sm \in {<<>>, <<"w">>}}

InitLog ==
    \E o \in LogOpts :
        InitWith(o, "linux", TRUE, OneCaller,
                 [starts |-> LogStarts, frames |-> LogFrames,
                  debugs |-> LogDebugMsgs])

NextLog ==
    \/ Lifecycle
    \/ \E c \in Callers : \E m \in IncMsgs : IncWithMessage(c, m)
    \/ \E c \in Callers : IncWrite(c)
    \/ \E c \in Callers : \E m \in DebugMsgs : Debugf(c, m)
    \/ \E c \in Callers : DebugfLocked(c)

SpecLog == InitLog /\ [][NextLog]_vars

(***************************************************************************)
(* SpecFrames: one caller calling Start, IncWithMessage and Stop in this   *)
(* order, while one goroutine of run() renders up to WrapFrames frames,    *)
(* more than the glyphs there are.                                         *)
(***************************************************************************)
\* Start(), IncWithMessage("a"), Stop()
StartIncStop ==
    <<Call("Start", <<>>), Call("IncWithMessage", <<"a">>), Call("Stop", <<>>)>>

FramesOpts ==
    {[DefaultOpts EXCEPT !.count = n, !.startMsg = sm] :
        n \in {DefaultCount, MaxCount}, sm \in {<<>>, <<"w">>}}

InitFrames ==
    \E o \in FramesOpts : \E os \in GoosValues :
        InitWith(o, os, FALSE, [c \in {"c1"} |-> StartIncStop],
                 [starts |-> IncStarts, frames |-> WrapFrames, debugs |-> 0])

NextFrames ==
    \/ Lifecycle
    \/ \E c \in Callers : \E m \in IncMsgs : IncWithMessage(c, m)
    \/ \E c \in Callers : IncWrite(c)

SpecFrames == InitFrames /\ [][NextFrames]_vars

(***************************************************************************)
(* Package textutil.  A byte slice and a string are both sequences of      *)
(* one-character strings; indices are those of Go, from 0.                 *)
(***************************************************************************)
\* The mapping functions a caller passes: "wrap" returns the name between
\* angle brackets, "var" returns the text ${v}, "empty" returns "".
Mappings == {"wrap", "var", "empty"}

Mapping(id, name) ==
    CASE id = "wrap" -> <<"<">> \o name \o <<">">>
      [] id = "var" -> <<"$", "{", "v", "}">>
      [] OTHER -> <<>>

\* src[a:b]
Slice(src, a, b) == SubSeq(src, a + 1, b)

\* A scan that stops at the last closing brace.
ScanBraceLast(src, varStart) ==
    LET js == {j \in varStart..(Len(src) - 1) : src[j + 1] = "}"}
    IN IF js = {} THEN -1 ELSE CHOOSE j \in js : \A k \in js : k <= j

\* lines 66-72 and 116-122: the index of the first closing brace from
\* varStart on, or -1.
ScanBrace(src, varStart) ==
    LET js == {j \in varStart..(Len(src) - 1) : src[j + 1] = "}"}
    IN IF js = {} THEN -1 ELSE CHOOSE j \in js : \A k \in js : j <= k

RECURSIVE ExpandVariablesLoop(_, _, _, _, _)
\* lines 50-92: the loop from index i on, and the return.  buf.nil tells
\* that buf was not allocated yet.
ExpandVariablesLoop(src, mapping, i, end, buf) ==
    IF i >= Len(src) \/ i + 2 > Len(src)
    THEN IF buf.nil THEN src ELSE buf.b \o Slice(src, end, Len(src))
    ELSE IF ~(src[i + 1] = "$" /\ src[i + 2] = "{")
    THEN ExpandVariablesLoop(src, mapping, i + 1, end, buf)
    ELSE
      LET b1 == [nil |-> FALSE, b |-> buf.b \o Slice(src, end, i)]
          varStart == i + 2
          varEnd == ScanBrace(src, varStart)
      IN
      IF varEnd = -1
      THEN ExpandVariablesLoop(src, mapping, (i + 1) + 1, end, b1)
      ELSE IF varEnd = varStart
      THEN ExpandVariablesLoop(src, mapping, (i + 2) + 1, end, b1)
      ELSE
        LET name == Slice(src, varStart, varEnd)
            b2 == [b1 EXCEPT !.b = @ \o Mapping(mapping, name)]
            i2 == i + Len(name) + 2
        IN ExpandVariablesLoop(src, mapping, i2 + 1, i2 + 1, b2)

\* ExpandVariables: lines 47-93.
ExpandVariables(src, mapping) ==
    ExpandVariablesLoop(src, mapping, 0, 0, [nil |-> TRUE, b |-> <<>>])

RECURSIVE ExpandVariablesStringLoop(_, _, _, _, _)
\* lines 99-142: the loop from index i on, and the return.  sb.nil tells
\* that the strings.Builder was not allocated yet.
ExpandVariablesStringLoop(src, mapping, i, end, sb) ==
    IF i >= Len(src) \/ i + 2 > Len(src)
    THEN IF sb.nil THEN src ELSE sb.b \o Slice(src, end, Len(src))
    ELSE IF ~(src[i + 1] = "$" /\ src[i + 2] = "{")
    THEN ExpandVariablesStringLoop(src, mapping, i + 1, end, sb)
    ELSE
      LET sb1 == [nil |-> FALSE, b |-> sb.b \o Slice(src, end, i)]
          varStart == i + 2
          varEnd == ScanBrace(src, varStart)
      IN
      IF varEnd = -1
      THEN ExpandVariablesStringLoop(src, mapping, (i + 1) + 1, end, sb1)
      ELSE IF varEnd = varStart
      THEN ExpandVariablesStringLoop(src, mapping, (i + 2) + 1, end, sb1)
      ELSE
        LET name == Slice(src, varStart, varEnd)
            sb2 == [sb1 EXCEPT !.b = @ \o Mapping(mapping, name)]
            i2 == i + Len(name) + 2
        IN ExpandVariablesStringLoop(src, mapping, i2 + 1, i2 + 1, sb2)

\* An ExpandVariablesString that expands the variables of its result again.
ExpandVariablesStringTwice(src, mapping) ==
    LET once == ExpandVariablesStringLoop(src, mapping, 0, 0, [nil |-> TRUE, b |-> <<>>])
    IN ExpandVariablesStringLoop(once, mapping, 0, 0, [nil |-> TRUE, b |-> <<>>])

\* ExpandVariablesString: lines 96-143.
ExpandVariablesString(src, mapping) ==
    ExpandVariablesStringLoop(src, mapping, 0, 0, [nil |-> TRUE, b |-> <<>>])

\* A call of ExpandVariables on the arguments held in ex.
CallExpandVariables ==
    /\ ex.fn = "args"
    /\ ex' = [ex EXCEPT !.fn = "ExpandVariables",
                        !.out = ExpandVariables(ex.src, ex.mapping)]
    /\ UNCHANGED <<spinner, col>>

\* A call of ExpandVariablesString on the arguments held in ex.
CallExpandVariablesString ==
    /\ ex.fn = "args"
    /\ ex' = [ex EXCEPT !.fn = "ExpandVariablesString",
                        !.out = ExpandVariablesString(ex.src, ex.mapping)]
    /\ UNCHANGED <<spinner, col>>

(***************************************************************************)
(* SpecExpand: one call of ExpandVariables or ExpandVariablesString on     *)
(* every text made of at most MaxPieces pieces and every mapping.          *)
(***************************************************************************)
Pieces == {<<"$", "{">>, <<"}">>, <<"$">>, <<"a">>, <<"b">>}

RECURSIVE Concat(_)
Concat(ps) == IF ps = <<>> THEN <<>> ELSE Head(ps) \o Concat(Tail(ps))

\* The texts made of at most n of the pieces.
Texts(pieces, n) == {Concat(ps) : ps \in Strings(pieces, n)}

NoLimits == [starts |-> 0, frames |-> 0, debugs |-> 0]

InitExpand ==
    /\ InitSpinner(DefaultOpts, "linux", TRUE, OneCaller, NoLimits)
    /\ col = NoColor
    /\ \E src \in Texts(Pieces, MaxPieces) : \E m \in Mappings :
          ex = [fn |-> "args", src |-> src, mapping |-> m, out |-> <<>>]

NextExpand ==
    \/ CallExpandVariables
    \/ CallExpandVariablesString

SpecExpand == InitExpand /\ [][NextExpand]_vars

(***************************************************************************)
(* Package color.  col holds the package variables noColor and enabled,    *)
(* the arguments of the SetEnabled calls made so far, the text in that the *)
(* colour functions are called on, and the last call with its result.      *)
(***************************************************************************)
fgBlack == 30
fgRed == 31
fgGreen == 32
fgYellow == 33
fgBlue == 34
fgMagenta == 35
fgCyan == 36
fgWhite == 37
fgReset == 39

\* fmt.Sprintf("\x1b[%dm", code)
Code(code) == <<ESC, "[">> \o Itoa(code) \o <<"m">>

RECURSIVE ReplaceAll(_, _)
\* regexp.ReplaceAllString(str, "") for a pattern that matches the text pat
\* only: the matches, found from left to right without overlap in one pass,
\* are removed.
ReplaceAll(str, pat) ==
    IF Len(str) < Len(pat) THEN str
    ELSE IF SubSeq(str, 1, Len(pat)) = pat
    THEN ReplaceAll(SubSeq(str, Len(pat) + 1, Len(str)), pat)
    ELSE <<Head(str)>> \o ReplaceAll(Tail(str), pat)

\* init: lines 38-49; present tells that NO_COLOR is in the environment.
ColorInit(present) ==
    LET noColor == IF present THEN TRUE ELSE FALSE
    IN [fn |-> "init", noColor |-> noColor, enabled |-> ~noColor,
        setCalls |-> <<>>, in |-> <<>>, out |-> <<>>]

\* apply: lines 51-60.
apply(str, start, end) ==
    IF ~col.enabled THEN str
    ELSE LET sanitized == ReplaceAll(str, Code(end))
         IN Code(start) \o sanitized \o Code(end)

\* A SetEnabled that does not look at noColor.
SetEnabledAlways(e) ==
    /\ Len(col.setCalls) < MaxSetCalls
    /\ col' = [col EXCEPT !.fn = "SetEnabled", !.setCalls = Append(@, e),
                          !.enabled = e, !.out = <<>>]
    /\ UNCHANGED <<spinner, ex>>

\* SetEnabled: lines 65-71.
SetEnabled(e) ==
    /\ Len(col.setCalls) < MaxSetCalls
    /\ col' = [col EXCEPT !.fn = "SetEnabled", !.setCalls = Append(@, e),
                          !.enabled = IF col.noColor THEN @ ELSE e,
                          !.out = <<>>]
    /\ UNCHANGED <<spinner, ex>>

\* lines 73-111.
Black(str) == apply(str, fgBlack, fgReset)
Red(str) == apply(str, fgRed, fgReset)
Green(str) == apply(str, fgGreen, fgReset)
Yellow(str) == apply(str, fgYellow, fgReset)
Blue(str) == apply(str, fgBlue, fgReset)
Magenta(str) == apply(str, fgMagenta, fgReset)
Cyan(str) == apply(str, fgCyan, fgReset)
White(str) == apply(str, fgWhite, fgReset)

ColorFns == <<"Black", "Red", "Green", "Yellow", "Blue", "Magenta", "Cyan", "White">>

ColorFn(f, str) ==
    CASE f = "Black" -> Black(str)
      [] f = "Red" -> Red(str)
      [] f = "Green" -> Green(str)
      [] f = "Yellow" -> Yellow(str)
      [] f = "Blue" -> Blue(str)
      [] f = "Magenta" -> Magenta(str)
      [] f = "Cyan" -> Cyan(str)
      [] OTHER -> White(str)

\* A call of the colour function named f on the text.
CallColor(f) ==
    /\ col' = [col EXCEPT !.fn = f, !.out = ColorFn(f, col.in)]
    /\ UNCHANGED <<spinner, ex>>

(***************************************************************************)
(* SpecColor: SetEnabled calls and calls of the eight colour functions in  *)
(* any order, with and without NO_COLOR in the environment, on every text  *)
(* made of at most MaxColorPieces pieces, the reset code and parts of it   *)
(* among them.                                                             *)
(***************************************************************************)
ColorPieces == {<<"x">>, Code(fgReset), <<ESC, "[", "3">>, <<"9", "m">>}

InitColor ==
    /\ InitSpinner(DefaultOpts, "linux", TRUE, OneCaller, NoLimits)
    /\ ex = NoExpand
    /\ \E present \in BOOLEAN : \E str \in Texts(ColorPieces, MaxColorPieces) :
          col = [ColorInit(present) EXCEPT !.in = str]

NextColor ==
    \/ \E e \in BOOLEAN : SetEnabled(e)
    \/ \E k \in 1..Len(ColorFns) : CallColor(ColorFns[k])

SpecColor == InitColor /\ [][NextColor]_vars

(***************************************************************************)
(* Properties.                                                             *)
(***************************************************************************)
Min(a, b) == IF a <= b THEN a ELSE b

AliveTasks == {t \in Tasks : Alive(t)}

\* No caller is inside a method.
Quiet == \A c \in Callers : pc[c] = "idle"

LastWrite == s.w[Len(s.w)]

\* C1: in every reachable state at most one goroutine of run() is alive.
C1_AtMostOneTask == Cardinality(AliveTasks) <= 1

\* C2: whenever the spinner is active and every successful Start has
\* returned, a goroutine of run() is alive.
C2_ActiveHasTask == (s.active /\ launched = started) => AliveTasks # {}

\* C3: a frame is written only while the spinner is active, and while the
\* spinner is inactive with the lock free the last write to the output
\* writer is not a frame: after Stop returned no goroutine renders until a
\* later Start.
C3_NoFrameAfterStop ==
    /\ [][(s'.w # s.w /\ s'.w[Len(s'.w)].kind = "frame") => (s.active /\ s'.active)]_vars
    /\ []((~s.active /\ s.mu = None /\ s.w # <<>>) => LastWrite.kind # "frame")

\* C3 witness: Stop returned while the goroutine was between its select and
\* its Lock; the goroutine then saw active = false and returned without
\* rendering, leaving the stop signal in the channel.
C3_Witness ==
    /\ started = 1 /\ launched = 1 /\ Quiet
    /\ ~s.active /\ s.mu = None
    /\ run[1].pc = "done"
    /\ s.stopChan = 1
    /\ rendered >= 1
    /\ LastWrite.kind # "frame"

\* C4: whenever Stop is at its send on stopChan, holding the lock, the slot
\* of the channel is empty.
C4_SendNeverBlocks == \A c \in Callers : pc[c] = "StopSend" => s.stopChan = 0

StopText ==
    IF opts.stopMsg[Len(opts.stopMsg)] = LF THEN opts.stopMsg ELSE opts.stopMsg \o <<LF>>

\* C5: with a non-empty stop message, once Stop has returned and until the
\* next Start the last two writes to the output writer are the erase of the
\* last rendered frame and then the stop message ending in one newline, and
\* lastOutput is empty.
C5_StopOutput ==
    (opts.stopMsg # <<>> /\ started > 0 /\ ~s.active /\ s.mu = None) =>
        LET n == Len(s.w) IN
        /\ n >= 2
        /\ s.w[n] = [kind |-> "stop", text |-> StopText]
        /\ s.w[n - 1].kind = "erase"
        /\ s.w[n - 1].text =
               EraseText(IF n >= 3 /\ s.w[n - 2].kind = "frame"
                         THEN Len(s.w[n - 2].text) ELSE 0)
        /\ s.lastOutput = <<>>

\* C5 witness: the second Stop of two cycles has returned, after a frame of
\* the second cycle, on a spinner whose stop message has no newline.
C5_Witness ==
    /\ opts.stopMsg = <<"d">>
    /\ started = 2 /\ ~s.active /\ Quiet
    /\ Len(s.w) >= 5
    /\ LastWrite.kind = "stop"
    /\ s.w[Len(s.w) - 2].kind = "frame"
    /\ s.w[Len(s.w) - 3].kind = "erase"
    /\ s.w[Len(s.w) - 4].kind = "stop"

\* C6: a Start call on an active spinner changes no field of the spinner,
\* launches no goroutine and returns at once.
C6_StartNoOp ==
    [][\A c \in Callers :
         (Start(c) /\ s.active) =>
             /\ s' = s
             /\ run' = run /\ launched' = launched /\ started' = started
             /\ pc' = pc]_vars

\* C6 witness: a Start has returned early on an active spinner that has a
\* message, a rendered frame, progress and a goroutine.
C6_Witness ==
    /\ last = [op |-> "Start", early |-> TRUE]
    /\ s.active /\ s.msg # <<>> /\ s.lastOutput # <<>> /\ s.completed > 0
    /\ AliveTasks # {}
    /\ Quiet

\* C7: a Stop call on an inactive spinner changes no field of the spinner
\* (nothing is written to either writer, nothing is sent on stopChan) and
\* returns at once.
C7_StopNoOp ==
    [][\A c \in Callers :
         (Stop(c) /\ ~s.active) =>
             /\ s' = s
             /\ run' = run /\ launched' = launched /\ started' = started
             /\ pc' = pc]_vars

\* C7 witness: a Stop has returned early on a spinner that was stopped
\* before, with earlier output on the writer.
C7_Witness ==
    /\ last = [op |-> "Stop", early |-> TRUE]
    /\ ~s.active /\ started > 0 /\ s.w # <<>> /\ s.msg # <<>>
    /\ Quiet

IncInProgress == {c \in Callers : pc[c] = "IncWrite"}

\* C8: completed never decreases and never exceeds count; after exactly
\* count Inc* calls completed = count; an Inc* call made when
\* completed = count changes no field of the spinner.
C8_Progress ==
    /\ [](s.completed >= 0 /\ s.completed <= s.count)
    /\ []((incCalls = s.count /\ IncInProgress = {}) => s.completed = s.count)
    /\ [][s'.completed >= s.completed]_vars
    /\ [][(incCalls' # incCalls /\ s.completed = s.count) => (s' = s /\ pc' = pc)]_vars

\* C8 witness: an IncWithMessage call has returned early on a spinner whose
\* progress is complete, after more than count Inc* calls.
C8_Witness ==
    /\ last = [op |-> "IncWithMessage", early |-> TRUE]
    /\ s.count = MaxCount /\ s.completed = s.count
    /\ incCalls > s.count
    /\ Quiet

\* C9: with callers and goroutines interleaved in any way, the increments
\* written and in progress are the number of Inc* calls made, capped at
\* count: no increment is lost and none passes count.
C9_NoLostIncrement ==
    s.completed + Cardinality(IncInProgress) = Min(incCalls, s.count)

\* C9 witness: more than count calls were made with count >= 2, one of them
\* found the progress complete, while a goroutine renders frames.
C9_Witness ==
    /\ s.count >= 2 /\ incCalls > s.count /\ s.completed = s.count
    /\ IncInProgress = {}
    /\ AliveTasks # {} /\ rendered >= 1
    /\ LastWrite.kind = "frame"
    /\ LastWrite.text = Line(s, 0)

DebugOptsDefault == [DefaultOpts EXCEPT !.debugw = TRUE]

\* C10 as stated: with default options and a debug writer, after
\* IncWithMessage("step1"), IncWithMessage("step2"), Stop() the debug
\* writer has received the lines "step1" and "step2".
C10_Original ==
    (opts = DebugOptsDefault /\ prog["c1"] = IncIncStop /\ Finished) =>
        s.debugw.out = <<Step1 \o <<LF>>, Step2 \o <<LF>>>>

\* C10 amended: with a debug writer and a total count of at least 2, after
\* Start(), IncWithMessage("step1"), IncWithMessage("step2"), Stop() the
\* debug writer has received exactly the lines "step1" and "step2", in this
\* order and without a leading space.
C10_StartedScenario ==
    (opts.debugw /\ opts.count >= 2 /\ prog["c1"] = StartIncIncStop /\ Finished) =>
        s.debugw.out = <<Step1 \o <<LF>>, Step2 \o <<LF>>>>

\* C10 witness: the amended scenario has finished, and a frame showing
\* "step1" was rendered (and erased) before "step2" was set.
C10_Witness ==
    /\ opts.debugw /\ opts.count >= 2 /\ prog["c1"] = StartIncIncStop /\ Finished
    /\ \E k \in 1..Len(s.w) :
          s.w[k].kind = "frame" /\ s.w[k].text = <<CR, Frames[1], SP>> \o Step1
                                   \o <<SP>> \o <<"(", "1", "/">> \o Itoa(opts.count) \o <<")", SP>>

\* C11: on a spinner with the default count and maximum message length, no
\* call of Start, Stop, Inc, IncWithMessage, IncWithMessagef or Debugf
\* panics, whatever the message and the start message are.
C11_NoPanic ==
    (opts.count = DefaultCount /\ opts.maxMsgLen = DefaultMaxMsgLen) => ~s.panicked

\* strings.TrimSuffix(m, "\n")
Strip(m) == IF m # <<>> /\ m[Len(m)] = LF THEN SubSeq(m, 1, Len(m) - 1) ELSE m

\* The message setMsg is applied to in this step, by the second half of an
\* Inc* call or by a Start that finds the spinner inactive; empty when the
\* step does not call setMsg.
SetMsgInput ==
    IF \E c \in Callers : pc[c] = "IncWrite" /\ pc'[c] = "idle"
    THEN arg[CHOOSE c \in Callers : pc[c] = "IncWrite" /\ pc'[c] = "idle"]
    ELSE IF ~s.active /\ s'.active THEN s.startMsg
    ELSE <<>>

\* The text of m cut to at most n characters, with the marker if it was cut.
Truncated(m, n) == IF Len(m) > n THEN SubSeq(m, 1, n) \o Ellipsis ELSE m

\* C12: whenever setMsg is applied to a message m that is not empty once
\* one trailing newline is stripped, on a spinner of maximum message length
\* L >= 0: if len(m) > L the stored text is the first L characters of m
\* followed by "...", if len(m) <= L it is m itself (in both cases after at
\* most one leading space), and the stored message without its leading
\* space and the marker is at most L characters long.  Lengths are those of
\* len(m); the messages are single-byte text.
C12_Truncation ==
    [][LET m1 == Strip(SetMsgInput)
           L == s.maxMsgLen
           text == Truncated(m1, L)
       IN
       (m1 # <<>> /\ L >= 0) =>
           /\ ~s'.panicked
           /\ s'.msg \in {text, <<SP>> \o text}
           /\ Len(m1) > L => Len(s'.msg) - 1 - Len(Ellipsis) <= L
           /\ Len(m1) <= L => Len(s'.msg) - 1 <= L]_vars

\* C12 witness: IncWithMessage("aa") has returned on a spinner of maximum
\* message length 1 that had no message: the message is " a...".
C12_Witness ==
    /\ opts.maxMsgLen = 1 /\ opts.startMsg = <<>>
    /\ last = [op |-> "IncWithMessage", early |-> FALSE]
    /\ Quiet
    /\ s.completed = 1
    /\ s.msg = <<SP, "a">> \o Ellipsis

\* C13 as stated: the message is empty or starts with a space, and setMsg
\* stores the text with one space added when the message does not start
\* with a space and with none added when the message starts with one.
C13_Original ==
    /\ [](s.msg = <<>> \/ s.msg[1] = SP)
    /\ [][LET m1 == Strip(SetMsgInput)
              text == Truncated(m1, s.maxMsgLen)
          IN
          (m1 # <<>> /\ s.maxMsgLen >= 0) =>
              s'.msg = IF m1[1] = SP THEN text ELSE <<SP>> \o text]_vars

\* C13 amended: the message is empty or starts with a space, and setMsg
\* stores the text (the message cut to the maximum length, with the marker
\* if it was cut) with exactly one space added when that text does not
\* start with a space and with none added when it does; with a maximum
\* length of at least 1 the text starts with a space exactly when the
\* message does.
C13_LeadingSpace ==
    /\ [](s.msg = <<>> \/ s.msg[1] = SP)
    /\ [][LET m1 == Strip(SetMsgInput)
              text == Truncated(m1, s.maxMsgLen)
          IN
          (m1 # <<>> /\ s.maxMsgLen >= 0) =>
              /\ s'.msg = IF text[1] = SP THEN text ELSE <<SP>> \o text
              /\ s.maxMsgLen >= 1 => text[1] = m1[1]]_vars

\* C13 witness: Start has set the start message " " and returned: the
\* message is " ", with no space added.
C13_Witness ==
    /\ opts.startMsg = <<SP>> /\ opts.maxMsgLen >= 1
    /\ last = [op |-> "Start", early |-> FALSE]
    /\ Quiet
    /\ s.active /\ s.msg = <<SP>>

\* C14: on a spinner constructed without a debug writer, debugMsgs is empty
\* in every state reached by Start, Inc*, Debugf and Stop calls and frames.
C14_NoPendingWithoutSink == ~s.debugw.set => s.debugMsgs = <<>>

\* The characters of a string.
Chars(str) == {str[k] : k \in 1..Len(str)}

\* The lines the debug writer receives in this step.
NewDebugLines == SubSeq(s'.debugw.out, Len(s.debugw.out) + 1, Len(s'.debugw.out))

\* C15: the locked half of Debugf appends exactly its message to debugMsgs
\* and changes no other field of the spinner (message, counters, active,
\* lastOutput, the two writers); the test of s.debugw that begins a Debugf
\* call changes nothing, and without a debug writer the call returns at
\* once; the text of Debugf is never written to the output writer; the
\* debug writer receives lines only in a step that erases, and then first
\* the lines of the messages that were pending, which leaves none pending.
C15_Debugf ==
    /\ [][\A c \in Callers :
            (pc[c] = "DebugfLock" /\ pc'[c] = "idle") =>
                s' = [s EXCEPT !.debugMsgs = Append(@, arg[c])]]_vars
    /\ [][\A c \in Callers : \A m \in DebugMsgs :
            Debugf(c, m) =>
                /\ s' = s /\ run' = run
                /\ ~s.debugw.set => pc' = pc]_vars
    /\ [](\A k \in 1..Len(s.w) : \A m \in DebugMsgs :
            Chars(m) \cap Chars(s.w[k].text) = {})
    /\ [][s'.debugw.out # s.debugw.out => s'.w # s.w]_vars
    /\ [][(s.debugw.set /\ s'.w # s.w) =>
            /\ Len(NewDebugLines) >= Len(s.debugMsgs)
            /\ SubSeq(NewDebugLines, 1, Len(s.debugMsgs)) = Lines(s.debugMsgs)
            /\ s'.debugMsgs = <<>>]_vars

\* C15 witness: a Debugf message was flushed to the debug writer by the
\* erase of a frame render, after a message replaced by IncWithMessage, and
\* none is pending.
C15_Witness ==
    /\ s.debugw.set /\ Quiet
    /\ s.debugMsgs = <<>>
    /\ s.w # <<>> /\ LastWrite.kind = "frame"
    /\ \E k \in 2..Len(s.debugw.out) :
          /\ s.debugw.out[k] = <<"x", LF>>
          /\ s.debugw.out[k - 1] # <<"x", LF>>

\* The threads inside a section of code that runs under the mutex and spans
\* more than one step.
Holders ==
    {c \in Callers : pc[c] \in {"StopSend", "IncWrite"}}
    \cup {TaskName(t) : t \in {u \in Tasks : run[u].pc = "locked"}}

\* At most one thread is inside a section under the mutex, and it is the
\* thread that holds the mutex.
OneHolder == IF s.mu = None THEN Holders = {} ELSE Holders = {s.mu}

\* A goroutine of run() that sleeps does not hold the mutex.
SleepsUnlocked == \A t \in Tasks : run[t].pc = "sleep" => s.mu # TaskName(t)

\* The fields of the spinner other than the mutex and the stop channel.
LockedFields == DOMAIN s \ {"mu", "stopChan", "panicked"}

\* The thread that holds the mutex takes this step.
HolderSteps ==
    \/ s.mu \in Callers /\ pc'[s.mu] # pc[s.mu]
    \/ \E t \in Tasks : s.mu = TaskName(t) /\ run'[t] # run[t]

\* While a thread holds the mutex no other thread changes a field.
WritesLocked ==
    (s.mu # None /\ \E f \in LockedFields : s'[f] # s[f]) => HolderSteps

\* C16 as stated: no field of the spinner is read or written by a thread
\* that does not hold the mutex, at most one thread is inside a section
\* under the mutex, and a sleeping goroutine does not hold it.
C16_Original ==
    /\ [](unlocked = {})
    /\ [][WritesLocked]_vars
    /\ []OneHolder
    /\ []SleepsUnlocked

\* C16 amended: the only fields read or written by a thread that does not
\* hold the mutex are debugw, tested by Debugf before its Lock and never
\* assigned after construction, and stopChan, polled by run() before its
\* Lock; every other field is read and written under the mutex, at most one
\* thread is inside a section under the mutex, and a sleeping goroutine
\* does not hold it.
C16_LockDiscipline ==
    /\ [](unlocked \subseteq {"debugw", "stopChan"})
    /\ [][s'.debugw.set = s.debugw.set]_vars
    /\ [][WritesLocked]_vars
    /\ []OneHolder
    /\ []SleepsUnlocked

\* C16 witness: a caller is between the two halves of IncWithMessage and
\* holds the mutex, while the other caller waits at the Lock of Debugf and
\* a goroutine of run() waits at its Lock, after Debugf has tested debugw
\* and run() has polled stopChan without the mutex.
C16_Witness ==
    /\ unlocked = {"debugw", "stopChan"}
    /\ pc["c1"] = "IncWrite" /\ s.mu = "c1"
    /\ pc["c2"] = "DebugfLock"
    /\ \E t \in Tasks : run[t].pc = "lock"
    /\ rendered >= 1

\* The index from a on of the first place where text has "${", or -1.
FirstOpen(text, a) ==
    LET ks == {k \in a..(Len(text) - 2) : text[k + 1] = "$" /\ text[k + 2] = "{"}
    IN IF ks = {} THEN -1 ELSE CHOOSE k \in ks : \A j \in ks : k <= j

\* The index from a on of the first "}" of text, or -1.
FirstClose(text, a) ==
    LET js == {j \in a..(Len(text) - 1) : text[j + 1] = "}"}
    IN IF js = {} THEN -1 ELSE CHOOSE j \in js : \A k \in js : j <= k

RECURSIVE Expanded(_, _, _)
\* The text from index a on with every well-formed placeholder ${name}
\* replaced by the mapping of its name, read from left to right: "${"
\* without a later "}" and "${}" stay as they are.
Expanded(text, mapping, a) ==
    LET k == FirstOpen(text, a)
        close == IF k = -1 THEN -1 ELSE FirstClose(text, k + 2)
    IN
    IF k = -1 \/ close = -1 THEN Slice(text, a, Len(text))
    ELSE IF close = k + 2
    THEN Slice(text, a, close + 1) \o Expanded(text, mapping, close + 1)
    ELSE Slice(text, a, k) \o Mapping(mapping, Slice(text, k + 2, close))
         \o Expanded(text, mapping, close + 1)

\* C17: the result of ExpandVariables and of ExpandVariablesString is the
\* input with the well-formed placeholders replaced and every other
\* character, those of "${" without a closing brace and of "${}" included,
\* kept once and in order.
C17_MalformedVerbatim ==
    ex.fn \in {"ExpandVariables", "ExpandVariablesString"} =>
        ex.out = Expanded(ex.src, ex.mapping, 0)

\* Every "${" of the text starts a placeholder with a non-empty name that
\* ends at the first "}" after it.
WellFormedInput(text) ==
    \A k \in 0..(Len(text) - 2) :
        (text[k + 1] = "$" /\ text[k + 2] = "{") =>
            FirstClose(text, k + 2) \notin {-1, k + 2}

\* C18: on an input whose every "${" starts a well-formed placeholder,
\* ExpandVariables returns the input with each placeholder, from left to
\* right, replaced by the mapping of its name and all other text kept (the
\* text of a replacement is not scanned again); an input without "${" is
\* returned as it is; src is not modified.
C18_WellFormed ==
    /\ []((ex.fn = "ExpandVariables" /\ WellFormedInput(ex.src)) =>
            ex.out = Expanded(ex.src, ex.mapping, 0))
    /\ []((ex.fn = "ExpandVariables" /\ FirstOpen(ex.src, 0) = -1) =>
            ex.out = ex.src)
    /\ [][CallExpandVariables => (ex'.src = ex.src /\ ex'.mapping = ex.mapping)]_vars

\* C18 witness: ExpandVariables has returned on "${a}${b}" with the
\* mapping that puts the name between angle brackets: the result is
\* "<a><b>".
C18_Witness ==
    /\ ex.fn = "ExpandVariables" /\ ex.mapping = "wrap"
    /\ ex.src = <<"$", "{", "a", "}", "$", "{", "b", "}">>
    /\ WellFormedInput(ex.src)
    /\ ex.out = <<"<", "a", ">", "<", "b", ">">>

\* The argument of the most recent SetEnabled call, TRUE before the first.
LastSetEnabled ==
    IF col.setCalls = <<>> THEN TRUE ELSE col.setCalls[Len(col.setCalls)]

IsColorCall == \E k \in 1..Len(ColorFns) : col.fn = ColorFns[k]

\* C19: with NO_COLOR in the environment colour is disabled after any
\* sequence of SetEnabled calls and every colour function returns its
\* input; without it colour is enabled at first and then enabled is the
\* argument of the most recent SetEnabled call; whenever colour is disabled
\* a colour function returns its input.
C19_Toggle ==
    /\ col.noColor => ~col.enabled
    /\ ~col.noColor => col.enabled = LastSetEnabled
    /\ (IsColorCall /\ (col.noColor \/ ~col.enabled)) => col.out = col.in

\* C19 witness: with NO_COLOR set, after SetEnabled(false) and
\* SetEnabled(true), Red was called on a text with a reset code and
\* returned it as it is.
C19_Witness ==
    /\ col.noColor /\ col.setCalls = <<FALSE, TRUE>>
    /\ col.fn = "Red"
    /\ col.in = <<"x">> \o Code(fgReset) \o <<"x">>
    /\ col.out = col.in

\* The number of places where pat occurs in str.
Occurrences(str, pat) ==
    Cardinality({k \in 1..(Len(str) - Len(pat) + 1) :
                    SubSeq(str, k, k + Len(pat) - 1) = pat})

\* "\x1b[39m"
ResetCode == <<ESC, "[", "3", "9", "m">>

\* "\x1b[30m" for Black up to "\x1b[37m" for White
StartCode(f) ==
    <<ESC, "[", "3",
      CHOOSE d \in {"0", "1", "2", "3", "4", "5", "6", "7"} :
          \E k \in 1..Len(ColorFns) : ColorFns[k] = f /\ d = ToString(k - 1),
      "m">>

\* C20: while colour is enabled, a colour function returns its start code,
\* then the text without the reset codes that occur in it, then the reset
\* code, and the reset code occurs in the result exactly once, at its end.
C20_ResetOnce ==
    (IsColorCall /\ col.enabled) =>
        /\ col.out = StartCode(col.fn) \o ReplaceAll(col.in, ResetCode) \o ResetCode
        /\ Occurrences(col.out, ResetCode) = 1


\* The line that is on the terminal after the first k writes: the frame of
\* write k, or nothing after an erase or a stop message.
Shown(k) == IF k >= 1 /\ s.w[k].kind = "frame" THEN s.w[k].text ELSE <<>>

\* This step writes a frame to the output writer.
WritesFrame == s'.w # s.w /\ s'.w[Len(s'.w)].kind = "frame"

\* C21: every frame on the output writer comes directly after an erase of
\* the line that was shown before it; a step that writes a frame is a step of
\* the goroutine that holds the mutex, writes the erase and the frame and
\* nothing else, and releases the mutex; whenever the mutex is free
\* lastOutput is the frame last written if no erase followed it, and is
\* empty otherwise.
C21_EraseThenWrite ==
    /\ [](\A k \in 1..Len(s.w) :
            s.w[k].kind = "frame" =>
                /\ k >= 2
                /\ s.w[k - 1] = [kind |-> "erase",
                                 text |-> EraseText(Len(Shown(k - 2)))])
    /\ [][WritesFrame =>
            /\ \E t \in Tasks : s.mu = TaskName(t) /\ run[t].pc = "locked"
            /\ s'.mu = None
            /\ Len(s'.w) = Len(s.w) + 2
            /\ SubSeq(s'.w, 1, Len(s.w)) = s.w
            /\ s'.w[Len(s.w) + 1] = [kind |-> "erase",
                                     text |-> EraseText(Len(s.lastOutput))]]_vars
    /\ [](s.mu = None => s.lastOutput = Shown(Len(s.w)))

\* C21 witness: on Windows, a second goroutine has rendered its first frame
\* over the frame of the first goroutine, which was stopped and has not
\* looked at the stop signal yet; the erase between the two frames has the
\* length of the first.
C21_Witness ==
    /\ goos = "windows"
    /\ s.mu = None /\ Quiet /\ s.active
    /\ started = 2 /\ Cardinality(AliveTasks) = 2
    /\ Len(s.w) >= 4
    /\ LastWrite.kind = "frame" /\ s.lastOutput = LastWrite.text
    /\ \E k \in 1..(Len(s.w) - 2) :
          /\ s.w[k].kind = "frame"
          /\ Len(s.w[k].text) > 0
          /\ \E j \in (k + 1)..(Len(s.w) - 1) :
                s.w[j] = [kind |-> "erase", text |-> EraseText(Len(s.w[k].text))]


\* The frames written to the output writer so far, in order.
IsFrame(wr) == wr.kind = "frame"
FramesWritten == SelectSeq(s.w, IsFrame)

\* "(completed/count) " when count > 1, nothing otherwise; the numbers are
\* single digits.
Progress(completed, count) ==
    IF count > 1
    THEN <<"(", ToString(completed), "/", ToString(count), ")", SP>>
    ELSE <<>>

\* The glyph of the k-th frame of a goroutine, k from 1.
Glyph(k) == Frames[((k - 1) % NumFrames) + 1]

\* C22: a step that writes a frame writes carriage return, the glyph of the
\* writing goroutine's loop index, the message, one space and, exactly when
\* count > 1, "(completed/count) ", with the message and the counters of the
\* moment of the step; a goroutine starts at loop index 0; and the k-th
\* frame of the one goroutine has the k-th glyph of the cycle.
C22_FrameText ==
    /\ [][WritesFrame =>
            \E t \in Tasks :
                /\ s.mu = TaskName(t)
                /\ s'.w[Len(s'.w)].text =
                       <<CR, Frames[run[t].i + 1]>> \o s.msg \o <<SP>>
                       \o Progress(s.completed, s.count)
                /\ s'.msg = s.msg /\ s'.completed = s.completed]_vars
    /\ [][\A t \in Tasks :
            (run[t].pc = "none" /\ run'[t].pc # "none") => run'[t].i = 0]_vars
    /\ [](\A k \in 1..Len(FramesWritten) : FramesWritten[k].text[2] = Glyph(k))

\* C22 witness: the goroutine has rendered more frames than there are
\* glyphs, the first frames before the IncWithMessage("a") with the start
\* message and "(0/2)", the last with the first glyph again, the message
\* " a" and "(1/2)".
C22_Witness ==
    /\ opts.count = 2 /\ opts.startMsg = <<"w">>
    /\ Len(FramesWritten) = NumFrames + 1
    /\ FramesWritten[1].text = <<CR, Frames[1], SP, "w", SP, "(", "0", "/", "2", ")", SP>>
    /\ LastWrite.kind = "frame"
    /\ LastWrite.text = <<CR, Frames[1], SP, "a", SP, "(", "1", "/", "2", ")", SP>>


\* This step ends goroutine t of run().
Exits(t) == Alive(t) /\ run'[t].pc = "done"

\* C23: a goroutine of run() ends only by receiving the stop signal in its
\* select or by finding active = false under the mutex; and in every run in
\* which the spinner is stopped and never started again, with every thread
\* scheduled again and again, from some moment on no goroutine of run() is
\* alive.
C23_Termination ==
    /\ [][\A t \in Tasks :
            Exits(t) =>
                \/ run[t].pc = "select" /\ s.stopChan > 0
                                        /\ s'.stopChan = s.stopChan - 1
                \/ run[t].pc = "locked" /\ s.mu = TaskName(t) /\ ~s.active
                                        /\ s'.mu = None]_vars
    /\ (<>[](~s.active)) => <>[](AliveTasks = {})


\* C23 witness: the spinner was started and stopped twice and is stopped;
\* both goroutines of run() have ended after rendering, one by receiving a
\* stop signal and one by finding active = false, which left the other
\* signal in the channel.
C23_Witness ==
    /\ ~s.active /\ Quiet /\ s.mu = None
    /\ started = 2 /\ launched = 2
    /\ run[1].pc = "done" /\ run[2].pc = "done"
    /\ s.stopChan = 1
    /\ rendered >= 2


\* The debug log: the lines the debug writer has received, then the lines
\* of the messages that wait for the next erase.
DebugLog == s.debugw.out \o Lines(s.debugMsgs)

\* The lines of the debug log that are messages of the spinner, not texts
\* of Debugf.
IsMessageLine(line) == \A m \in DebugMsgs : line # m \o <<LF>>
MessageLines == SelectSeq(DebugLog, IsMessageLine)

\* How many times a message became the message of the spinner: once for
\* every Start of an inactive spinner with a start message, once for every
\* IncWithMessage that counted.
TimesSet == (IF opts.startMsg # <<>> THEN started ELSE 0) + s.completed

\* This step erases.
Erases == s'.w # s.w

\* C24: on a spinner with a debug writer, every message that became the
\* message of the spinner has one line in the debug log and no more (the
\* line of the present message is added when it is replaced or by Stop), a
\* line is the message without its leading space, the debug writer receives
\* the pending messages in their order, each erase leaves none pending, and
\* when Stop returns every message set so far has been written exactly
\* once.
C24_FaithfulLog ==
    /\ [](s.debugw.set =>
            /\ Len(MessageLines) <= TimesSet
            /\ Len(MessageLines) >= TimesSet - 1
            /\ \A k \in 1..Len(MessageLines) : MessageLines[k][1] # SP)
    /\ [][(s.debugw.set /\ \E c \in Callers : pc[c] = "StopSend" /\ pc'[c] = "idle") =>
            /\ s'.debugMsgs = <<>>
            /\ Len(SelectSeq(s'.debugw.out, IsMessageLine)) = TimesSet']_vars
    /\ [][(s.debugw.set /\ Erases) =>
            /\ s'.debugMsgs = <<>>
            /\ SubSeq(NewDebugLines, 1, Len(s.debugMsgs)) = Lines(s.debugMsgs)]_vars


\* The index from a on of the first place where text has the character ch,
\* or -1.
IndexFrom(text, ch, a) ==
    LET js == {j \in a..(Len(text) - 1) : text[j + 1] = ch}
    IN IF js = {} THEN -1 ELSE CHOOSE j \in js : \A k \in js : j <= k

RECURSIVE NamesFrom(_, _)
\* The names the mapping "wrap" was called with, in the order of the calls,
\* read from a result from index a on: "wrap" is the only source of "<" and
\* ">" in a result, and it puts each name it is given between them.
NamesFrom(out, a) ==
    LET open == IndexFrom(out, "<", a)
        close == IF open = -1 THEN -1 ELSE IndexFrom(out, ">", open + 1)
    IN IF open = -1 \/ close = -1 THEN <<>>
       ELSE <<Slice(out, open + 1, close)>> \o NamesFrom(out, close + 1)

\* C25: on every text and every mapping a call of ExpandVariables returns
\* what ExpandVariablesString returns on the same arguments, and the other
\* way round; with the mapping that shows the name it is called with, the
\* two results show the same names in the same order.
C25_Equivalent ==
    /\ ex.fn = "ExpandVariables" =>
           /\ ex.out = ExpandVariablesString(ex.src, ex.mapping)
           /\ ex.mapping = "wrap" =>
                  NamesFrom(ex.out, 0)
                      = NamesFrom(ExpandVariablesString(ex.src, ex.mapping), 0)
    /\ ex.fn = "ExpandVariablesString" =>
           /\ ex.out = ExpandVariables(ex.src, ex.mapping)
           /\ ex.mapping = "wrap" =>
                  NamesFrom(ex.out, 0)
                      = NamesFrom(ExpandVariables(ex.src, ex.mapping), 0)

\* C25 witness: ExpandVariablesString has returned "a<b>${" on "a${b}${"
\* with the mapping that shows the names, called once with "b", as
\* ExpandVariables does.
C25_Witness ==
    /\ ex.fn = "ExpandVariablesString" /\ ex.mapping = "wrap"
    /\ ex.src = <<"a", "$", "{", "b", "}", "$", "{">>
    /\ ex.out = <<"a", "<", "b", ">", "$", "{">>
    /\ NamesFrom(ex.out, 0) = <<(<<"b">>)>>
    /\ ExpandVariables(ex.src, ex.mapping) = ex.out

====
